---------------------------- MODULE Spec2Model ----------------------------
(***************************************************************************)
(* Model of the session/event recording engine of the desktop activity     *)
(* monitor: ActivityMonitor (src/src/monitor.rs), its data types           *)
(* (src/src/types.rs) and the task-name field of the window                *)
(* (src/src/gui.rs).                                                       *)
(*                                                                         *)
(* Strings are sequences of one-character strings, so that formatting,     *)
(* joining and trimming are computed and not assumed.  A file is the       *)
(* sequence of CSV records it holds; a record is a sequence of strings.    *)
(*                                                                         *)
(* A sink operation (serialize, write_record, flush) either succeeds or    *)
(* returns Err.  A record reaches its file when it was written and flushed *)
(* without error; a record whose write or flush failed is not in the file. *)
(***************************************************************************)
EXTENDS Integers, Sequences, FiniteSets, TLC

\* ------------------------------------------------------------------ bounds
\* Readings of the clock in one run, and the readings per second.
MaxClock == 9
SubsecPerSec == 2
\* Actions recorded in one session (one more when no sink operation fails),
\* and sessions written to the summary file.
MaxActions == 2
MaxSessions == 2
\* Sink operations that return Err in one run.
MaxFaults == 1

\* --------------------------------------------------------- the environment
\* What the device can report: the held keys in the order DeviceState lists
\* them, and the pointer coordinates.
KeySamples ==
    { <<>>, <<"Keycode::A">>, <<"Keycode::A", "Keycode::B">>,
      <<"Keycode::B", "Keycode::A">> }
Coords == { <<0, 0>>, <<10, 20>> }
\* What the operator can type into the task name field.
TaskBuild == <<"b", "u", "i", "l", "d">>
TaskTest == <<"t", "e", "s", "t">>
TaskNames == { <<>>, <<" ", " ", " ">>, TaskBuild, TaskTest }
\* Result of one sink operation (serialize, write_record, flush), and the
\* text of the error an Err carries.
IoResults == {"Ok", "Err"}
IoError == "io error"
\* The Errs among the results of some sink operations
RECURSIVE Errs(_)
Errs(results) ==
    IF results = <<>> THEN 0
    ELSE (IF Head(results) = "Err" THEN 1 ELSE 0) + Errs(Tail(results))

\* ------------------------------------------------------------- formatting
RECURSIVE Join(_, _)
Join(ss, sep) ==
    IF ss = <<>> THEN <<>>
    ELSE IF Len(ss) = 1 THEN ss[1]
    ELSE ss[1] \o sep \o Join(Tail(ss), sep)

DigitChars == <<"0", "1", "2", "3", "4", "5", "6", "7", "8", "9">>

RECURSIVE DecNat(_)
DecNat(n) ==
    IF n < 10 THEN <<DigitChars[n + 1]>>
    ELSE DecNat(n \div 10) \o <<DigitChars[(n % 10) + 1]>>

\* {} of an i32
Display(n) == IF n < 0 THEN <<"-">> \o DecNat(0 - n) ELSE DecNat(n)

\* {:?} of a String: the text in quotation marks (the names used here hold
\* no character that needs an escape)
DebugString(s) == <<"\"">> \o s \o <<"\"">>

\* {:?} of a Vec<String>
DebugVec(ss) ==
    <<"[">> \o Join([i \in 1..Len(ss) |-> DebugString(ss[i])], <<",", " ">>)
        \o <<"]">>

\* {:?} of an (i32, i32)
DebugCoords(c) ==
    <<"(">> \o Display(c[1]) \o <<",", " ">> \o Display(c[2]) \o <<")">>

\* {:?} of a Keycode: the name of the variant
KeycodeDebug(k) ==
    CASE k = "Keycode::A" -> <<"A">>
      [] k = "Keycode::B" -> <<"B">>

\* Local::now().to_rfc3339(): seconds and the fraction of the second
ToRfc3339(now) ==
    DecNat(now \div SubsecPerSec) \o <<".">> \o DecNat(now % SubsecPerSec)

\* Local::now().format("%Y%m%d_%H%M%S"): whole seconds only
FormatSessionId(now) == <<"_">> \o DecNat(now \div SubsecPerSec)

IsWhitespace(c) == c \in {" ", "\t", "\n", "\r"}

RECURSIVE TrimStart(_)
TrimStart(s) ==
    IF s # <<>> /\ IsWhitespace(Head(s)) THEN TrimStart(Tail(s)) ELSE s

RECURSIVE TrimEnd(_)
TrimEnd(s) ==
    IF s # <<>> /\ IsWhitespace(s[Len(s)])
    THEN TrimEnd(SubSeq(s, 1, Len(s) - 1))
    ELSE s

Trim(s) == TrimEnd(TrimStart(s))

\* Option<String>
None == <<>>
\* An end_time that is never filled in
SomeDropped(x) == <<>>
Some(x) == <<x>>
UnwrapOrDefault(opt) == IF opt = None THEN <<>> ELSE opt[1]

\* ------------------------------------------------------------------ types
MouseMove(timestamp, coords) ==
    [kind |-> "MouseMove", timestamp |-> timestamp, coords |-> coords,
     keys |-> <<>>]

KeyPress(timestamp, keys) ==
    [kind |-> "KeyPress", timestamp |-> timestamp, coords |-> <<0, 0>>,
     keys |-> keys]

\* An encoding that joins the keys with the separator of the actions field
to_csv_string_semicolon(action) ==
    IF action.kind = "MouseMove"
    THEN <<"{", "m", "o", "u", "s", "e", ",">> \o action.timestamp
             \o <<",", "(">> \o Display(action.coords[1]) \o <<",">>
             \o Display(action.coords[2]) \o <<")", "}">>
    ELSE <<"{", "k", "e", "y", ",">> \o action.timestamp \o <<",">>
             \o DebugString(Join(action.keys, <<";">>)) \o <<"}">>

to_csv_string(action) ==
    IF action.kind = "MouseMove"
    THEN <<"{", "m", "o", "u", "s", "e", ",">> \o action.timestamp
             \o <<",", "(">> \o Display(action.coords[1]) \o <<",">>
             \o Display(action.coords[2]) \o <<")", "}">>
    ELSE <<"{", "k", "e", "y", ",">> \o action.timestamp \o <<",">>
             \o DebugString(Join(action.keys, <<"+">>)) \o <<"}">>

ActionsField(actions) ==
    Join([i \in 1..Len(actions) |-> to_csv_string(actions[i])], <<";">>)

to_csv_record(session) ==
    << session.session_id,
       session.task_name,
       session.start_time,
       UnwrapOrDefault(session.end_time),
       ActionsField(session.actions) >>

\* serde's view of a DetailedEvent: the names of its fields (the header the
\* csv writer puts before the first record) and their values as text
DetailedHeader ==
    << <<"t", "i", "m", "e", "s", "t", "a", "m", "p">>,
       <<"t", "a", "s", "k", "_", "n", "a", "m", "e">>,
       <<"e", "v", "e", "n", "t", "_", "t", "y", "p", "e">>,
       <<"d", "e", "t", "a", "i", "l", "s">>,
       <<"m", "o", "u", "s", "e", "_", "x">>,
       <<"m", "o", "u", "s", "e", "_", "y">> >>

DetailedEvent(timestamp, task, event_type, details, mouse_x, mouse_y) ==
    << timestamp, task, event_type, details, Display(mouse_x),
       Display(mouse_y) >>

EventKeyboard == <<"k", "e", "y", "b", "o", "a", "r", "d">>
EventMouseMove == <<"m", "o", "u", "s", "e", "_", "m", "o", "v", "e">>

\* ------------------------------------------------------------------ sinks
SessionHeader ==
    << <<"s", "e", "s", "s", "i", "o", "n", "_", "i", "d">>,
       <<"t", "a", "s", "k", "_", "n", "a", "m", "e">>,
       <<"s", "t", "a", "r", "t", "_", "t", "i", "m", "e">>,
       <<"e", "n", "d", "_", "t", "i", "m", "e">>,
       <<"a", "c", "t", "i", "o", "n", "s">> >>

\* A file opened without truncate keeps what it holds
OpenKeep(file) == file

\* OpenOptions ... truncate(true).open(path): the file as it is afterwards
OpenTruncate(file) == <<>>

\* A writer that starts the file again with every record
SerializeOverwrite(file, record, written, flushed) ==
    IF written # "Ok" \/ flushed # "Ok" THEN file
    ELSE <<DetailedHeader, record>>

\* Writer::serialize then flush on detailed_writer: the writer puts the header
\* before the first record it writes
SerializeAndFlush(file, record, written, flushed) ==
    IF written # "Ok" \/ flushed # "Ok" THEN file
    ELSE IF file = <<>> THEN <<DetailedHeader, record>>
    ELSE Append(file, record)

\* A session writer on a file opened with truncate in place of append
WriteRecordTruncating(file, record, written, flushed) ==
    IF written # "Ok" \/ flushed # "Ok" THEN file
    ELSE <<SessionHeader, record>>

\* Writer::write_record then flush on session_writer (opened for append)
WriteRecordAndFlush(file, record, written, flushed) ==
    IF written # "Ok" \/ flushed # "Ok" THEN file ELSE Append(file, record)

\* The records after the header
DataRows(file) == IF file = <<>> THEN <<>> ELSE Tail(file)

\* ----------------------------------------------------------------- state
VARIABLES
    is_monitoring,      \* ActivityMonitor.is_monitoring
    session_file,       \* monitoring_sessions.csv, written by session_writer
    detailed_file,      \* latest_session_details.csv, written by detailed_writer
    events_recorded,    \* ActivityMonitor.events_recorded
    status_text,        \* a format string and its arguments
    last_keys,          \* ActivityMonitor.last_keys
    last_mouse_pos,     \* ActivityMonitor.last_mouse_pos
    current_session,    \* ActivityMonitor.current_session
    task_name,          \* ActivityMonitor.task_name
    clock,              \* Local::now(): the readings taken so far, each
                        \* later than the one before
    faults,             \* the sink operations that have returned Err
    cycle               \* how far the run has followed the reference cycle

monitor_vars ==
    << is_monitoring, session_file, detailed_file, events_recorded,
       status_text, last_keys, last_mouse_pos, current_session, task_name >>

vars == << monitor_vars, clock, faults, cycle >>

\* The ActivityMonitor as one value, for the methods below
Self ==
    [ is_monitoring |-> is_monitoring,
      session_file |-> session_file,
      detailed_file |-> detailed_file,
      events_recorded |-> events_recorded,
      status_text |-> status_text,
      last_keys |-> last_keys,
      last_mouse_pos |-> last_mouse_pos,
      current_session |-> current_session,
      task_name |-> task_name ]

\* The ActivityMonitor after a method has run
Becomes(self) ==
    /\ is_monitoring' = self.is_monitoring
    /\ session_file' = self.session_file
    /\ detailed_file' = self.detailed_file
    /\ events_recorded' = self.events_recorded
    /\ status_text' = self.status_text
    /\ last_keys' = self.last_keys
    /\ last_mouse_pos' = self.last_mouse_pos
    /\ current_session' = self.current_session
    /\ task_name' = self.task_name

\* --------------------------------------------------------- ActivityMonitor
NewSession(id_now, start_now, task) ==
    [ session_id |-> FormatSessionId(id_now),
      task_name |-> task,
      start_time |-> ToRfc3339(start_now),
      end_time |-> None,
      actions |-> <<>> ]

\* ActivityMonitor::new: both files truncated, the header written to the
\* summary file, a placeholder session with an empty task name
new(id_now, start_now) ==
    [ is_monitoring |-> FALSE,
      session_file |-> <<SessionHeader>>,
      detailed_file |-> <<>>,
      events_recorded |-> FALSE,
      status_text |-> <<"Enter task name to start monitoring">>,
      last_keys |-> <<>>,
      last_mouse_pos |-> <<0, 0>>,
      current_session |-> NewSession(id_now, start_now, <<>>),
      task_name |-> <<>> ]

\* A start that does not look at is_monitoring
NeverMonitoring(self) == FALSE

\* start_monitoring, the first check (monitor.rs 100)
AlreadyMonitoring(self) == self.is_monitoring

\* A check for the empty name that forgets trim
IsEmptyUntrimmed(name) == name = <<>>

\* start_monitoring, the second check (monitor.rs 105)
IsBlank(name) == Trim(name) = <<>>

\* Whether start_monitoring gets as far as creating a session
StartAccepted(self) == ~AlreadyMonitoring(self) /\ ~IsBlank(self.task_name)

\* A start that also puts the snapshot of the detector back to that of new
start_monitoring_resetting(self, id_now, start_now) ==
    IF AlreadyMonitoring(self)
    THEN [self EXCEPT !.status_text = <<"Already monitoring!">>]
    ELSE IF IsBlank(self.task_name)
    THEN [self EXCEPT !.status_text = <<"Please enter a task name first">>]
    ELSE [self EXCEPT
            !.current_session = NewSession(id_now, start_now, self.task_name),
            !.detailed_file = OpenTruncate(@),
            !.status_text = <<"Started monitoring task: {}", self.task_name>>,
            !.last_keys = <<>>,
            !.last_mouse_pos = <<0, 0>>,
            !.is_monitoring = TRUE]

start_monitoring(self, id_now, start_now) ==
    IF AlreadyMonitoring(self)
    THEN [self EXCEPT !.status_text = <<"Already monitoring!">>]
    ELSE IF IsBlank(self.task_name)
    THEN [self EXCEPT !.status_text = <<"Please enter a task name first">>]
    ELSE [self EXCEPT
            !.current_session = NewSession(id_now, start_now, self.task_name),
            !.detailed_file = OpenTruncate(@),
            !.status_text = <<"Started monitoring task: {}", self.task_name>>,
            !.is_monitoring = TRUE]

\* The status a stop ends with (monitor.rs 165-175)
StoppedStatus(self) ==
    IF self.events_recorded
    THEN <<"Monitoring stopped for task: {}. Activities were recorded.",
           self.task_name>>
    ELSE <<"Monitoring stopped for task: {}. No activities were recorded.",
           self.task_name>>

\* The record stop_monitoring builds field by field (monitor.rs 145-156)
\* The record of the session as it was before end_time was set
StopRecordBeforeEnd(session) ==
    to_csv_record([session EXCEPT !.end_time = None])

StopRecord(session) ==
    << session.session_id,
       session.task_name,
       session.start_time,
       UnwrapOrDefault(session.end_time),
       Join([i \in 1..Len(session.actions) |->
                to_csv_string(session.actions[i])], <<";">>) >>

\* A stop that does not look at is_monitoring
AlwaysRunning(self) == FALSE

\* stop_monitoring, the check (monitor.rs 133)
NotRunning(self) == ~self.is_monitoring

stop_monitoring(self, now, written, flushed) ==
    IF NotRunning(self)
    THEN [self EXCEPT !.status_text = <<"Monitoring is not running">>]
    ELSE
      LET s1 == [self EXCEPT
                   !.status_text = <<"Stopping monitoring...">>,
                   !.is_monitoring = FALSE,
                   !.current_session.end_time = Some(ToRfc3339(now))]
          s2 == [s1 EXCEPT
                   !.session_file =
                      WriteRecordAndFlush(@, StopRecord(s1.current_session),
                                          written, flushed)]
          s3 == IF written = "Err"
                THEN [s2 EXCEPT !.status_text =
                         <<"Error saving session: {}", IoError>>]
                ELSE s2
          s4 == IF flushed = "Err"
                THEN [s3 EXCEPT !.status_text =
                         <<"Error flushing session data: {}", IoError>>]
                ELSE s3
      IN [s4 EXCEPT !.status_text = StoppedStatus(s4)]

\* Level-triggered: every sample counts as a change
KeysChangedAlways(keys, last) == TRUE

\* A detector that takes the release of all keys for no change
KeysChangedUnlessReleased(keys, last) == keys # last /\ keys # <<>>

\* A detector that compares the keys held as sets, whatever their order
KeysChangedAsSet(keys, last) ==
    {keys[i] : i \in 1..Len(keys)} # {last[i] : i \in 1..Len(last)}

KeysChanged(keys, last) == keys # last

MouseMoved(current_pos, last) == current_pos # last

\* keys.iter().map(|k| format!("{:?}", k)).collect()
KeysStr(keys) == [i \in 1..Len(keys) |-> KeycodeDebug(keys[i])]

\* A keyboard block that records the action only once its record is written
MonitorKeyboardAfterWrite(self, keys, mouse, now, written, flushed) ==
    IF ~KeysChanged(keys, self.last_keys) THEN self
    ELSE IF written = "Err"
    THEN [self EXCEPT !.status_text = <<"Error: {}", IoError>>,
                      !.last_keys = keys]
    ELSE
      LET timestamp == ToRfc3339(now)
          keys_str == KeysStr(keys)
          detailed_event ==
              DetailedEvent(timestamp, self.task_name, EventKeyboard,
                            DebugVec(keys_str), mouse[1], mouse[2])
      IN [self EXCEPT
            !.current_session.actions =
               Append(@, KeyPress(timestamp, keys_str)),
            !.detailed_file =
               SerializeAndFlush(@, detailed_event, written, flushed),
            !.events_recorded = TRUE,
            !.status_text = <<"Task: {} - Keyboard: {:?}",
                              self.task_name, keys_str>>,
            !.last_keys = keys]

\* A keyboard block that leaves last_keys alone when serialize fails, so that
\* the next update finds the same change again
MonitorKeyboardRetry(self, keys, mouse, now, written, flushed) ==
    IF ~KeysChanged(keys, self.last_keys) THEN self
    ELSE
      LET timestamp == ToRfc3339(now)
          keys_str == KeysStr(keys)
          detailed_event ==
              DetailedEvent(timestamp, self.task_name, EventKeyboard,
                            DebugVec(keys_str), mouse[1], mouse[2])
          s1 == [self EXCEPT
                   !.current_session.actions =
                      Append(@, KeyPress(timestamp, keys_str)),
                   !.detailed_file =
                      SerializeAndFlush(@, detailed_event, written, flushed)]
      IN IF written = "Err"
         THEN [s1 EXCEPT !.status_text = <<"Error: {}", IoError>>]
         ELSE [s1 EXCEPT
                 !.events_recorded = TRUE,
                 !.status_text = <<"Task: {} - Keyboard: {:?}",
                                   self.task_name, keys_str>>,
                 !.last_keys = keys]

\* update, the keyboard block (monitor.rs 183-217); mouse is the pointer
\* sampled inside the block
MonitorKeyboard(self, keys, mouse, now, written, flushed) ==
    IF ~KeysChanged(keys, self.last_keys) THEN self
    ELSE
      LET timestamp == ToRfc3339(now)
          keys_str == KeysStr(keys)
          detailed_event ==
              DetailedEvent(timestamp, self.task_name, EventKeyboard,
                            DebugVec(keys_str), mouse[1], mouse[2])
          s1 == [self EXCEPT
                   !.current_session.actions =
                      Append(@, KeyPress(timestamp, keys_str)),
                   !.detailed_file =
                      SerializeAndFlush(@, detailed_event, written, flushed)]
          s2 == IF written = "Err"
                THEN [s1 EXCEPT !.status_text = <<"Error: {}", IoError>>]
                ELSE [s1 EXCEPT
                        !.events_recorded = TRUE,
                        !.status_text = <<"Task: {} - Keyboard: {:?}",
                                          self.task_name, keys_str>>]
      IN [s2 EXCEPT !.last_keys = keys]

\* update, the mouse block (monitor.rs 219-255)
MonitorMouse(self, current_pos, now, written, flushed) ==
    IF ~MouseMoved(current_pos, self.last_mouse_pos) THEN self
    ELSE
      LET timestamp == ToRfc3339(now)
          detailed_event ==
              DetailedEvent(timestamp, self.task_name, EventMouseMove,
                            <<"M", "o", "v", "e", "d", " ", "t", "o", " ">>
                                \o DebugCoords(current_pos),
                            current_pos[1], current_pos[2])
          s1 == [self EXCEPT
                   !.current_session.actions =
                      Append(@, MouseMove(timestamp, current_pos)),
                   !.detailed_file =
                      SerializeAndFlush(@, detailed_event, written, flushed)]
          s2 == IF written = "Err"
                THEN [s1 EXCEPT !.status_text = <<"Error: {}", IoError>>]
                ELSE [s1 EXCEPT
                        !.events_recorded = TRUE,
                        !.status_text = <<"Task: {} - Mouse: ({}, {})",
                                          self.task_name, current_pos[1],
                                          current_pos[2]>>]
      IN [s2 EXCEPT !.last_mouse_pos = current_pos]

\* What one update reads: the keys, the pointer as the keyboard block reads
\* it, the pointer as the mouse block reads it, the clock in each block, and
\* the results of serialize and flush in each block
Sample(keys, key_mouse, mouse, key_now, mouse_now, kw, kf, mw, mf) ==
    [ keys |-> keys, key_mouse |-> key_mouse, mouse |-> mouse,
      key_now |-> key_now, mouse_now |-> mouse_now,
      key_written |-> kw, key_flushed |-> kf,
      mouse_written |-> mw, mouse_flushed |-> mf ]

\* An update that does not look at is_monitoring
update_unguarded(self, in) ==
    MonitorMouse(
      MonitorKeyboard(self, in.keys, in.key_mouse, in.key_now,
                      in.key_written, in.key_flushed),
      in.mouse, in.mouse_now, in.mouse_written, in.mouse_flushed)

update(self, in) ==
    IF ~self.is_monitoring THEN self
    ELSE MonitorMouse(
           MonitorKeyboard(self, in.keys, in.key_mouse, in.key_now,
                           in.key_written, in.key_flushed),
           in.mouse, in.mouse_now, in.mouse_written, in.mouse_flushed)

\* ------------------------------------------------------ the reference cycle
\* The cycle of spec section 8 on a fresh engine: start("build"), a tick with
\* key A held, a tick with no key held, a tick with the pointer at (10,20),
\* stop, with the pointer at rest at (0,0) before it moves and every sink
\* operation succeeding.  cycle names the last step of it the run has taken,
\* or is "off" once the run has left it.
CycleAfterName(n) ==
    IF cycle = "fresh" /\ n = TaskBuild THEN "named" ELSE "off"

CycleAfterStart == IF cycle = "named" THEN "started" ELSE "off"

CycleAfterUpdate(in) ==
    LET all_ok == /\ in.key_written = "Ok" /\ in.key_flushed = "Ok"
                  /\ in.mouse_written = "Ok" /\ in.mouse_flushed = "Ok"
        at_rest == in.key_mouse = <<0, 0>> /\ in.mouse = <<0, 0>>
    IN CASE cycle = "started" /\ all_ok /\ at_rest
              /\ in.keys = <<"Keycode::A">> -> "key_a"
         [] cycle = "key_a" /\ all_ok /\ at_rest /\ in.keys = <<>> -> "key_none"
         [] cycle = "key_none" /\ all_ok /\ in.keys = <<>>
              /\ in.mouse = <<10, 20>> -> "moved"
         [] OTHER -> "off"

CycleAfterStop(written, flushed) ==
    IF cycle = "moved" /\ written = "Ok" /\ flushed = "Ok"
    THEN "stopped" ELSE "off"

\* ---------------------------------------------------------------- actions
Init ==
    LET self == new(1, 2)
    IN /\ is_monitoring = self.is_monitoring
       /\ session_file = self.session_file
       /\ detailed_file = self.detailed_file
       /\ events_recorded = self.events_recorded
       /\ status_text = self.status_text
       /\ last_keys = self.last_keys
       /\ last_mouse_pos = self.last_mouse_pos
       /\ current_session = self.current_session
       /\ task_name = self.task_name
       /\ clock = 2
       /\ faults = 0
       /\ cycle = "fresh"

\* The operator edits the task name; the window offers the field only while
\* the monitor is not monitoring (gui.rs 33-44)
\* A name field that can be edited while monitoring as well
EditTaskNameAnytime ==
    \E n \in TaskNames :
        /\ n # task_name
        /\ Becomes([Self EXCEPT !.task_name = n])
        /\ UNCHANGED << clock, faults >>
        /\ cycle' = CycleAfterName(n)

EditTaskName ==
    \E n \in TaskNames :
        /\ ~is_monitoring
        /\ n # task_name
        /\ Becomes([Self EXCEPT !.task_name = n])
        /\ UNCHANGED << clock, faults >>
        /\ cycle' = CycleAfterName(n)

\* A call of start_monitoring; the clock is read twice when a session is
\* created and not at all otherwise
StartMonitoring ==
    LET accepted == StartAccepted(Self)
        reads == IF accepted THEN 2 ELSE 0
    IN /\ clock + reads <= MaxClock
       /\ accepted => Len(DataRows(session_file)) < MaxSessions
       /\ Becomes(start_monitoring(Self, clock + 1, clock + 2))
       /\ clock' = clock + reads
       /\ UNCHANGED faults
       /\ cycle' = CycleAfterStart

\* A call of stop_monitoring; the clock is read once when monitoring
StopMonitoring(max_faults) ==
    \E written \in (IF is_monitoring THEN IoResults ELSE {"Ok"}),
       flushed \in (IF is_monitoring THEN IoResults ELSE {"Ok"}) :
        LET reads == IF is_monitoring THEN 1 ELSE 0
        IN /\ clock + reads <= MaxClock
           /\ faults + Errs(<<written, flushed>>) <= max_faults
           /\ Becomes(stop_monitoring(Self, clock + 1, written, flushed))
           /\ clock' = clock + reads
           /\ faults' = faults + Errs(<<written, flushed>>)
           /\ cycle' = CycleAfterStop(written, flushed)

\* A call of update that samples keys and mouse.  What a block that does
\* not run would have read is fixed, so that one call is one step.
UpdateWith(keys, mouse, max_faults, max_actions) ==
    LET kc == is_monitoring /\ KeysChanged(keys, last_keys)
        mm == is_monitoring /\ MouseMoved(mouse, last_mouse_pos)
        key_now == clock + 1
        mouse_now == IF kc THEN clock + 2 ELSE clock + 1
        reads == (IF kc THEN 1 ELSE 0) + (IF mm THEN 1 ELSE 0)
    IN /\ clock + reads <= MaxClock
       /\ clock' = clock + reads
       /\ \E key_mouse \in (IF kc THEN Coords ELSE {mouse}),
             kw \in (IF kc THEN IoResults ELSE {"Ok"}),
             kf \in (IF kc THEN IoResults ELSE {"Ok"}),
             mw \in (IF mm THEN IoResults ELSE {"Ok"}),
             mf \in (IF mm THEN IoResults ELSE {"Ok"}) :
            LET in == Sample(keys, key_mouse, mouse, key_now, mouse_now,
                             kw, kf, mw, mf)
                next == update(Self, in)
            IN /\ faults + Errs(<<kw, kf, mw, mf>>) <= max_faults
               /\ faults' = faults + Errs(<<kw, kf, mw, mf>>)
               /\ Len(next.current_session.actions) <= max_actions
               /\ Becomes(next)
               /\ cycle' = CycleAfterUpdate(in)

Update(max_faults, max_actions) ==
    \E keys \in KeySamples, mouse \in Coords :
        UpdateWith(keys, mouse, max_faults, max_actions)

NextWith(max_faults, max_actions) ==
    \/ EditTaskName
    \/ StartMonitoring
    \/ StopMonitoring(max_faults)
    \/ Update(max_faults, max_actions)

Next == NextWith(MaxFaults, MaxActions)

Spec == Init /\ [][Next]_vars

\* The same engine with sinks that never fail
NextNoFail == NextWith(0, MaxActions + 1)

SpecNoFail == Init /\ [][NextNoFail]_vars

\* ------------------------------------------------------------ properties
IsPrefix(s, t) == Len(s) <= Len(t) /\ SubSeq(t, 1, Len(s)) = s

\* Whether text holds part starting at position i
OccursAt(text, part, i) ==
    i + Len(part) - 1 <= Len(text) /\ SubSeq(text, i, i + Len(part) - 1) = part

Occurrences(text, part) ==
    Cardinality({i \in 1..Len(text) : OccursAt(text, part, i)})

Contains(text, part) == \E i \in 1..(Len(text) + 1) : OccursAt(text, part, i)

\* The fields of a record of the detailed file
RowTimestamp(row) == row[1]
RowTaskName(row) == row[2]
RowEventType(row) == row[3]

\* The event type the detailed file gives an action
EventTypeOf(action) ==
    IF action.kind = "KeyPress" THEN EventKeyboard ELSE EventMouseMove

\* A detailed record is the record of this action
RowOfAction(row, action) ==
    /\ RowTimestamp(row) = action.timestamp
    /\ RowEventType(row) = EventTypeOf(action)

\* C1: while no sink operation fails, the data rows of the detailed file are
\* the actions of current_session, one row per action and in the same order,
\* "keyboard" for a KeyPress and "mouse_move" for a MouseMove; as every update
\* is one step, each row is written in the step that appends its action and
\* no row is written without an action.
C1_DetailedRowsAreTheActions ==
    LET rows == DataRows(detailed_file)
        actions == current_session.actions
    IN /\ Len(rows) = Len(actions)
       /\ \A i \in 1..Len(actions) : RowOfAction(rows[i], actions[i])

C1_RowsForBothKinds ==
    /\ Len(current_session.actions) >= 2
    /\ Len(DataRows(detailed_file)) = Len(current_session.actions)
    /\ \E i \in 1..Len(current_session.actions) :
           current_session.actions[i].kind = "KeyPress"
    /\ \E i \in 1..Len(current_session.actions) :
           current_session.actions[i].kind = "MouseMove"

\* C2: while no sink operation fails, the step that stops monitoring appends
\* exactly one record to the summary file and leaves the records before it
\* as they were, and no other step (start, update, edit, stop when idle)
\* changes the summary file; so the data rows count the stops that took
\* effect.
C2_OneSummaryRowPerStop ==
    [][ IF is_monitoring /\ ~is_monitoring'
        THEN /\ Len(session_file') = Len(session_file) + 1
             /\ IsPrefix(session_file, session_file')
        ELSE session_file' = session_file ]_vars

C2_TwoSessionsStopped ==
    /\ ~is_monitoring
    /\ Len(DataRows(session_file)) = 2
    /\ Head(session_file) = SessionHeader

\* C3: every data row of the detailed file is the record of an action of
\* current_session, the session the latest successful start created, and the
\* rows are no more than its actions: a successful start leaves the file
\* empty and nothing of an earlier session is in it.
C3_DetailedHoldsOnlyCurrentSession ==
    LET rows == DataRows(detailed_file)
        actions == current_session.actions
    IN /\ Len(rows) <= Len(actions)
       /\ \A i \in 1..Len(rows) :
            \E j \in 1..Len(actions) : RowOfAction(rows[i], actions[j])

\* A second session records its first event after a first session whose
\* events were all written
C3_SecondSessionAfterRecordedFirst ==
    /\ is_monitoring
    /\ faults = 0
    /\ Len(DataRows(session_file)) = 1
    /\ session_file[2][5] # <<>>
    /\ Len(DataRows(detailed_file)) = 1

\* Everything of the ActivityMonitor but status_text
all_but_status ==
    << is_monitoring, session_file, detailed_file, events_recorded,
       last_keys, last_mouse_pos, current_session, task_name >>

\* C4: an update while monitoring whose sample has the keys of last_keys and
\* the pointer of last_mouse_pos appends no action, writes to neither file
\* and leaves status_text, events_recorded and current_session as they were.
C4_UnchangedSampleChangesNothing ==
    [][ \A keys \in KeySamples, mouse \in Coords :
          ( /\ is_monitoring
            /\ keys = last_keys
            /\ mouse = last_mouse_pos
            /\ UpdateWith(keys, mouse, MaxFaults, MaxActions) )
          => UNCHANGED << status_text, events_recorded, current_session,
                          session_file, detailed_file >> ]_vars

\* Monitoring with keys held and the pointer away from the origin: the next
\* update may sample exactly this
C4_MonitoringWithKeysHeld ==
    /\ is_monitoring
    /\ last_keys # <<>>
    /\ last_mouse_pos # <<0, 0>>
    /\ Len(current_session.actions) = 2

\* C5: a start with an empty or whitespace-only task name while idle leaves
\* is_monitoring false, current_session and the detailed file as they were,
\* and sets status_text to the request for a task name.
C5_BlankNameNeverStarts ==
    [][ ( /\ ~is_monitoring
          /\ task_name \in { <<>>, <<" ", " ", " ">> }
          /\ StartMonitoring )
        => /\ ~is_monitoring'
           /\ UNCHANGED << current_session, detailed_file >>
           /\ status_text' = <<"Please enter a task name first">> ]_vars

C5_WhitespaceNameRefused ==
    /\ ~is_monitoring
    /\ task_name = <<" ", " ", " ">>
    /\ status_text = <<"Please enter a task name first">>

\* C6: a start while monitoring changes status_text and nothing else: the
\* session (id, task name, start time, actions), is_monitoring and the
\* detailed file stay as they were.
C6_StartWhileMonitoringKeepsSession ==
    [][ (is_monitoring /\ StartMonitoring)
        => /\ UNCHANGED all_but_status
           /\ status_text' = <<"Already monitoring!">> ]_vars

C6_AlreadyMonitoringWithEvents ==
    /\ is_monitoring
    /\ status_text = <<"Already monitoring!">>
    /\ current_session.actions # <<>>
    /\ DataRows(detailed_file) # <<>>

\* C7: a stop while idle changes status_text and nothing else: no record is
\* written to either file and current_session, end_time included, stays as
\* it was, also after a session has been completed.
C7_StopWhileIdleChangesOnlyStatus ==
    [][ (~is_monitoring /\ StopMonitoring(MaxFaults))
        => /\ UNCHANGED all_but_status
           /\ status_text' = <<"Monitoring is not running">> ]_vars

C7_SecondStopAfterSession ==
    /\ ~is_monitoring
    /\ status_text = <<"Monitoring is not running">>
    /\ Len(DataRows(session_file)) = 1
    /\ current_session.end_time # None

\* C8: the reference cycle on a fresh engine (start("build"), a tick with key
\* A held, a tick with no key held, a tick with the pointer at (10,20), stop)
\* ends with one summary row that has task name "build", an end time and two
\* {key,...} encodings in its actions field, and with three data rows in the
\* detailed file, two "keyboard" and one "mouse_move", each with task name
\* "build".
C8_ReferenceCycleResult ==
    cycle = "stopped" =>
      LET summary == DataRows(session_file)
          rows == DataRows(detailed_file)
      IN /\ Len(summary) = 1
         /\ summary[1][2] = TaskBuild
         /\ summary[1][4] # <<>>
         /\ current_session.end_time # None
         /\ Occurrences(summary[1][5], <<"{", "k", "e", "y", ",">>) = 2
         /\ Len(rows) = 3
         /\ Cardinality({i \in 1..Len(rows) :
                           RowEventType(rows[i]) = EventKeyboard}) = 2
         /\ Cardinality({i \in 1..Len(rows) :
                           RowEventType(rows[i]) = EventMouseMove}) = 1
         /\ \A i \in 1..Len(rows) : RowTaskName(rows[i]) = TaskBuild

C8_ReferenceCycleDone == cycle = "stopped" /\ ~is_monitoring

\* C9: an update in which a sink operation fails still appends the action:
\* it appends more actions than it writes rows, and keeps the actions before
\* them; while monitoring no step removes an action; and the record a stop
\* writes to the summary file holds the encoding of every action of the
\* session, those whose detailed record failed included.
C9_ActionKeptWhenDetailedWriteFails ==
    [][ LET actions == current_session.actions
            new_actions == Len(current_session.actions') - Len(actions)
            new_rows == Len(DataRows(detailed_file'))
                           - Len(DataRows(detailed_file))
        IN /\ (is_monitoring /\ is_monitoring' /\ faults' > faults)
                => new_actions >= 1 /\ new_rows < new_actions
           /\ is_monitoring => IsPrefix(actions, current_session.actions')
           /\ (is_monitoring /\ ~is_monitoring'
                 /\ session_file' # session_file)
                => \A i \in 1..Len(actions) :
                     Contains(session_file'[Len(session_file')][5],
                              to_csv_string(actions[i])) ]_vars

\* A stopped session whose only action has no detailed record but is in the
\* summary row
C9_LostRowActionInSummary ==
    /\ ~is_monitoring
    /\ faults = 1
    /\ Len(current_session.actions) = 1
    /\ DataRows(detailed_file) = <<>>
    /\ Len(DataRows(session_file)) = 1
    /\ Contains(session_file[2][5], to_csv_string(current_session.actions[1]))

\* The status texts that report a failed sink operation
ErrorFormats ==
    { "Error: {}", "Error saving session: {}",
      "Error flushing session data: {}" }

\* C10: when an update or a stop in which a sink operation failed returns,
\* status_text describes the failure.
C10_FailureShownInStatus ==
    [][ faults' > faults => status_text'[1] \in ErrorFormats ]_vars

\* C11: an update in which a sink operation fails leaves is_monitoring set
\* and advances last_keys and last_mouse_pos to the sample, so that the same
\* sample is no change for the next update; the failed record is not written
\* again (fewer rows than actions are added); and after a failure an update
\* whose sample differs from the snapshot still appends an action.
C11_FailedWriteNeitherHaltsNorRetries ==
    [][ \A keys \in KeySamples, mouse \in Coords :
          /\ (/\ is_monitoring
              /\ faults' > faults
              /\ UpdateWith(keys, mouse, MaxFaults, MaxActions))
             => /\ is_monitoring'
                /\ last_keys' = keys
                /\ last_mouse_pos' = mouse
                /\ Len(DataRows(detailed_file'))
                      - Len(DataRows(detailed_file))
                     < Len(current_session.actions')
                         - Len(current_session.actions)
          /\ (/\ is_monitoring
              /\ faults > 0
              /\ keys # last_keys \/ mouse # last_mouse_pos
              /\ UpdateWith(keys, mouse, MaxFaults, MaxActions))
             => /\ is_monitoring'
                /\ Len(current_session.actions')
                     > Len(current_session.actions) ]_vars

\* Still monitoring after a failed write: the first action has no record,
\* the action of a later update has one
C11_RecordedAfterFailedWrite ==
    /\ is_monitoring
    /\ faults = 1
    /\ Len(current_session.actions) = 2
    /\ Len(DataRows(detailed_file)) = 1
    /\ RowOfAction(DataRows(detailed_file)[1], current_session.actions[2])

\* The status a stop ends with when it reports recorded activities
RecordedFormat == "Monitoring stopped for task: {}. Activities were recorded."

\* C12: the status a stop ends with says that activities were recorded
\* exactly when the session being stopped holds at least one action, in
\* every session and not only the first.
C12_StopStatusTellsThisSession ==
    [][ (is_monitoring /\ ~is_monitoring')
        => ( status_text'[1] = RecordedFormat
               <=> current_session.actions # <<>> ) ]_vars

\* str::split: the pieces of text between the occurrences of sep
RECURSIVE Split(_, _)
Split(text, sep) ==
    IF \A i \in 1..Len(text) : text[i] # sep THEN <<text>>
    ELSE LET i == CHOOSE k \in 1..Len(text) :
                     text[k] = sep /\ \A j \in 1..(k - 1) : text[j] # sep
         IN <<SubSeq(text, 1, i - 1)>>
               \o Split(SubSeq(text, i + 1, Len(text)), sep)

\* The action encodings in an actions field: its pieces, none for the empty
\* field
Renderings(field) == IF field = <<>> THEN <<>> ELSE Split(field, ";")

\* C13: the actions field of the summary record of a session, split on ';',
\* gives the encodings of the actions of the session, as many as were
\* appended and in the order they were appended, and none for a session
\* without actions.
C13_ActionsFieldSplitsIntoTheActions ==
    LET actions == current_session.actions
        pieces == Renderings(to_csv_record(current_session)[5])
    IN /\ Len(pieces) = Len(actions)
       /\ \A i \in 1..Len(actions) : pieces[i] = to_csv_string(actions[i])

\* A session with three actions, a key press with two keys among them
C13_ThreeActionsWithTwoKeys ==
    /\ Len(current_session.actions) = 3
    /\ \E i \in 1..3 : Len(current_session.actions[i].keys) = 2
    /\ \E i \in 1..3 : current_session.actions[i].kind = "MouseMove"

\* C14: is_monitoring goes from false to true only in an accepted start and
\* from true to false only in a stop; no update changes it; and no step that
\* begins and ends idle, an update in particular, appends an action or
\* changes the detailed file.
C14_TwoStateMachine ==
    [][ /\ (~is_monitoring /\ is_monitoring')
             => (StartAccepted(Self) /\ StartMonitoring)
        /\ (is_monitoring /\ ~is_monitoring') => StopMonitoring(MaxFaults)
        /\ is_monitoring' # is_monitoring
             => \A keys \in KeySamples, mouse \in Coords :
                  ~UpdateWith(keys, mouse, MaxFaults, MaxActions)
        /\ (~is_monitoring /\ ~is_monitoring')
             => /\ current_session.actions' = current_session.actions
                /\ detailed_file' = detailed_file ]_vars

\* Stopped after a session with one recorded key press, the key still in the
\* snapshot
C14_StoppedWithKeyInSnapshot ==
    /\ ~is_monitoring
    /\ current_session.end_time # None
    /\ Len(current_session.actions) = 1
    /\ Len(DataRows(detailed_file)) = 1
    /\ last_keys # <<>>

\* The action of a sample, but for its timestamp
SameEvent(action, kind, keys, coords) ==
    action.kind = kind /\ action.keys = keys /\ action.coords = coords

\* C15: an update while monitoring appends a KeyPress with all keys of the
\* sample exactly when the sequence of keys differs from last_keys, then a
\* MouseMove with the coordinates of the sample exactly when they differ from
\* last_mouse_pos, and nothing else: none, one or two actions, the KeyPress
\* first.
C15_UpdateAppendsExactlyTheChanges ==
    [][ \A keys \in KeySamples, mouse \in Coords :
          (is_monitoring /\ UpdateWith(keys, mouse, MaxFaults, MaxActions))
          => LET before == current_session.actions
                 after == current_session.actions'
                 k == IF keys # last_keys THEN 1 ELSE 0
                 m == IF mouse # last_mouse_pos THEN 1 ELSE 0
             IN /\ Len(after) = Len(before) + k + m
                /\ SubSeq(after, 1, Len(before)) = before
                /\ k = 1 => SameEvent(after[Len(before) + 1], "KeyPress",
                                      KeysStr(keys), <<0, 0>>)
                /\ m = 1 => SameEvent(after[Len(before) + k + 1], "MouseMove",
                                      <<>>, mouse) ]_vars

\* Two keys recorded, then the same two keys in the other order
C15_ReorderingRecorded ==
    /\ Len(current_session.actions) = 2
    /\ SameEvent(current_session.actions[1], "KeyPress",
                 KeysStr(<<"Keycode::A", "Keycode::B">>), <<0, 0>>)
    /\ SameEvent(current_session.actions[2], "KeyPress",
                 KeysStr(<<"Keycode::B", "Keycode::A">>), <<0, 0>>)

\* C16: an update while idle changes nothing of the engine, whatever the
\* sample: current_session, events_recorded, status_text, last_keys,
\* last_mouse_pos and both files stay as they are; that is, a step from an
\* idle state that changes any of them is not an update, for any sample.
C16_IdleUpdateIsNoOp ==
    [][ (~is_monitoring /\ ~UNCHANGED monitor_vars)
        => \A keys \in KeySamples, mouse \in Coords :
             ~UpdateWith(keys, mouse, MaxFaults, MaxActions) ]_vars

\* Idle with a key and a moved pointer in the snapshot: a sample of no keys
\* and the pointer at the origin differs from both
C16_IdleWithSnapshotOfLastSession ==
    /\ ~is_monitoring
    /\ last_keys = <<"Keycode::A">>
    /\ last_mouse_pos = <<10, 20>>

\* C17: while monitoring end_time is None; the step that clears is_monitoring
\* sets it; once set it stays as it is until an accepted start replaces the
\* session.
C17_EndTimeSetByStopClearedByStart ==
    /\ [](is_monitoring => current_session.end_time = None)
    /\ [][ /\ (is_monitoring /\ ~is_monitoring')
                => current_session.end_time' # None
           /\ (current_session.end_time # None
                 /\ current_session.end_time' # current_session.end_time)
                => /\ ~is_monitoring /\ is_monitoring'
                   /\ StartAccepted(Self) /\ StartMonitoring
                   /\ current_session.end_time' = None ]_vars

\* The second session stopped: its end_time set after the start cleared that
\* of the first
C17_SecondSessionEnded ==
    /\ ~is_monitoring
    /\ current_session.end_time # None
    /\ Len(DataRows(session_file)) = 2
    /\ current_session.actions # <<>>

SecondsOf(timestamp) ==
    SubSeq(timestamp, 1,
           (CHOOSE i \in 1..Len(timestamp) : timestamp[i] = ".") - 1)

\* C19: the session_id of the session an accepted start creates is the
\* instant of its start_time in the format of session_id: both come from one
\* reading of the clock.
C19_SessionIdIsStartTimeFormatted ==
    is_monitoring
      => current_session.session_id
           = <<"_">> \o SecondsOf(current_session.start_time)

\* C20: an update while monitoring that appends an action leaves
\* events_recorded true, whether or not its record was written.
C20_EventsRecordedAfterAnyAction ==
    [][ (/\ is_monitoring
         /\ is_monitoring'
         /\ Len(current_session.actions') > Len(current_session.actions))
        => events_recorded' ]_vars

\* C21: the row a stop adds to the summary file is to_csv_record of
\* current_session as the stop leaves it, end_time set and nothing else of
\* the session changed; an accepted start begins the session with no actions
\* and while monitoring the actions only grow at the end, so the row holds
\* the actions detected since that start, in order, and no others.
C21_SummaryRowIsToCsvRecord ==
    [][ /\ (/\ is_monitoring
            /\ ~is_monitoring'
            /\ Len(session_file') > Len(session_file))
           => /\ session_file'
                   = Append(session_file, to_csv_record(current_session'))
              /\ current_session.end_time' # None
              /\ current_session'
                   = [current_session EXCEPT
                        !.end_time = current_session.end_time']
        /\ (~is_monitoring /\ is_monitoring')
           => current_session.actions' = <<>>
        /\ (is_monitoring /\ is_monitoring')
           => /\ IsPrefix(current_session.actions, current_session.actions')
              /\ [current_session' EXCEPT !.actions = <<>>]
                   = [current_session EXCEPT !.actions = <<>>] ]_vars

\* Two summary rows: the first session had an action, the second none, and
\* the second row is the record of the second session
C21_SecondRowWithoutFirstActions ==
    /\ ~is_monitoring
    /\ Len(DataRows(session_file)) = 2
    /\ DataRows(session_file)[1][5] # <<>>
    /\ DataRows(session_file)[2] = to_csv_record(current_session)
    /\ DataRows(session_file)[2][5] = <<>>

\* C22: last_keys and last_mouse_pos are no keys and (0, 0) after new; they
\* change only in a step that begins and ends monitoring and appends the
\* action of the change, so neither start nor stop touches them; and the
\* first update of a session that appends nothing had a sample equal to the
\* snapshot it found, whichever session left it.
C22_SnapshotOutlivesSessions ==
    /\ (last_keys = <<>> /\ last_mouse_pos = <<0, 0>>)
    /\ [][ /\ last_keys' # last_keys
              => /\ is_monitoring /\ is_monitoring'
                 /\ \E i \in (Len(current_session.actions) + 1)
                               ..Len(current_session.actions') :
                      SameEvent(current_session.actions'[i], "KeyPress",
                                KeysStr(last_keys'), <<0, 0>>)
           /\ last_mouse_pos' # last_mouse_pos
              => /\ is_monitoring /\ is_monitoring'
                 /\ Len(current_session.actions')
                      > Len(current_session.actions)
                 /\ SameEvent(
                      current_session.actions'[Len(current_session.actions')],
                      "MouseMove", <<>>, last_mouse_pos')
           /\ (/\ is_monitoring
               /\ current_session.actions = <<>>
               /\ current_session.actions' = <<>>)
              => \A keys \in KeySamples, mouse \in Coords :
                   UpdateWith(keys, mouse, MaxFaults, MaxActions)
                     => keys = last_keys /\ mouse = last_mouse_pos ]_vars

\* The first action of the second session is the release of the key the
\* first session left in the snapshot
C22_ReleaseOpensSecondSession ==
    /\ is_monitoring
    /\ Len(DataRows(session_file)) = 1
    /\ Len(current_session.actions) = 1
    /\ SameEvent(current_session.actions[1], "KeyPress", <<>>, <<0, 0>>)

\* C23: while monitoring task_name is the task_name of current_session; every
\* record of the detailed file carries the task_name of current_session; and
\* the row a stop adds to the summary file carries that same task_name.
C23_OneTaskNamePerSession ==
    /\ [](/\ is_monitoring => task_name = current_session.task_name
          /\ \A i \in 1..Len(DataRows(detailed_file)) :
               RowTaskName(DataRows(detailed_file)[i])
                 = current_session.task_name)
    /\ [][ (/\ is_monitoring
            /\ ~is_monitoring'
            /\ Len(session_file') > Len(session_file))
           => /\ RowTaskName(session_file'[Len(session_file')]) = task_name
              /\ \A i \in 1..Len(DataRows(detailed_file')) :
                   RowTaskName(DataRows(detailed_file')[i]) = task_name ]_vars

\* Monitoring the task "test" with a record written, after a session of the
\* task "build" was stopped
C23_SecondTaskRecorded ==
    /\ is_monitoring
    /\ task_name = TaskTest
    /\ Len(DataRows(detailed_file)) = 1
    /\ Len(DataRows(session_file)) = 1
    /\ RowTaskName(DataRows(session_file)[1]) = TaskBuild

\* C24: in current_session.actions two KeyPress actions with no KeyPress
\* between them differ in their keys, and two MouseMove actions with no
\* MouseMove between them differ in their coordinates.
C24_NeighboursOfAKindDiffer ==
    LET actions == current_session.actions
    IN \A i, j \in 1..Len(actions) :
         (/\ i < j
          /\ actions[i].kind = actions[j].kind
          /\ \A m \in (i + 1)..(j - 1) : actions[m].kind # actions[i].kind)
         => IF actions[i].kind = "KeyPress"
            THEN actions[i].keys # actions[j].keys
            ELSE actions[i].coords # actions[j].coords

\* Two key presses in a row, the record of one of them lost to a failed write
C24_TwoKeyPressesOneUnwritten ==
    /\ Len(current_session.actions) = 2
    /\ current_session.actions[1].kind = "KeyPress"
    /\ current_session.actions[2].kind = "KeyPress"
    /\ Len(DataRows(detailed_file)) = 1
    /\ is_monitoring

=============================================================================
